---- MODULE Spec2Model ----
(***************************************************************************)
(* Model of the go-playground MCP server: the tool router, the argument    *)
(* type guards, the playground client (runGoCode, shareGoCode,             *)
(* runAndShareGoCode), the response classifier and the presenter.          *)
(*                                                                         *)
(* Text is a sequence of atoms.  An atom is a TLA+ string: a single        *)
(* character of remote or user text ("a", " ", "e", "x") or a literal      *)
(* fragment the program writes ("HTTP Error: ").  String concatenation is  *)
(* \o, the empty string is << >>, and trim() strips whitespace atoms.      *)
(* Array.prototype.filter is SelectSeq.                                     *)
(*                                                                         *)
(* A JavaScript value of unknown type is a record tagged with its typeof:  *)
(* [t |-> "string", v |-> text], [t |-> "boolean", v |-> b],               *)
(* [t |-> "number", v |-> n], [t |-> "null"], [t |-> "undefined"],         *)
(* [t |-> "array", v |-> seq], [t |-> "object", f |-> fields].             *)
(* An optional field of a result is a record field that is absent.         *)
(***************************************************************************)
EXTENDS Integers, Sequences, FiniteSets, TLC

\* ---------------------------------------------------------------- bounds
MaxEvents == 2

\* ---------------------------------------------------------- text helpers
SeqsUpTo(S, n) == UNION {[1..k -> S] : k \in 0..n}

Whitespace == {" ", "\n"}

RECURSIVE trimStart(_)
trimStart(s) ==
    IF s = << >> THEN << >>
    ELSE IF Head(s) \in Whitespace THEN trimStart(Tail(s))
    ELSE s

RECURSIVE trimEnd(_)
trimEnd(s) ==
    IF s = << >> THEN << >>
    ELSE IF s[Len(s)] \in Whitespace THEN trimEnd(SubSeq(s, 1, Len(s) - 1))
    ELSE s

\* String.prototype.trim
trim(s) == trimEnd(trimStart(s))

\* Array.prototype.join('') over an array of texts
RECURSIVE joinEmpty(_)
joinEmpty(parts) ==
    IF parts = << >> THEN << >>
    ELSE Head(parts) \o joinEmpty(Tail(parts))

\* Array.prototype.join('\n') over an array of texts
RECURSIVE joinNewline(_)
joinNewline(parts) ==
    IF parts = << >> THEN << >>
    ELSE IF Len(parts) = 1 THEN Head(parts)
    ELSE Head(parts) \o <<"\n">> \o joinNewline(Tail(parts))

\* -------------------------------------------------------- types.ts
TOOL_NAMES == {"run_go_code", "share_go_code", "run_and_share_go_code"}

createGoPlaygroundError(message, code) ==
    [name |-> "GoPlaygroundError", message |-> message, code |-> code]

\* isGoCode without the trim
isGoCode_noTrim(value) ==
    /\ value.t = "string"
    /\ Len(value.v) > 0

isGoCode(value) ==
    /\ value.t = "string"
    /\ Len(trim(value.v)) > 0

\* isValidToolName checking the type only
isValidToolName_anyString(value) == value.t = "string"

isValidToolName(value) ==
    /\ value.t = "string"
    /\ \E n \in TOOL_NAMES : value.v = <<n>>

isRunGoCodeArgs(args) ==
    /\ args.t = "object"
    /\ "code" \in DOMAIN args.f
    /\ isGoCode(args.f.code)
    /\ IF "withVet" \in DOMAIN args.f
       THEN args.f.withVet.t = "boolean" ELSE TRUE

isShareGoCodeArgs(args) ==
    /\ args.t = "object"
    /\ "code" \in DOMAIN args.f
    /\ isGoCode(args.f.code)

isRunAndShareGoCodeArgs(args) ==
    /\ args.t = "object"
    /\ "code" \in DOMAIN args.f
    /\ isGoCode(args.f.code)
    /\ IF "withVet" \in DOMAIN args.f
       THEN args.f.withVet.t = "boolean" ELSE TRUE

validateGoCode(code) ==
    IF ~isGoCode([t |-> "string", v |-> code])
    THEN [success |-> FALSE,
          error |-> createGoPlaygroundError(
                        <<"Invalid Go code: code must be a non-empty string">>,
                        "VALIDATION_ERROR")]
    ELSE [success |-> TRUE, data |-> code]

isStdout(event) == event.Kind = "stdout"
isStderr(event) == event.Kind = "stderr"
nonEmptyMessage(message) == message # << >>

RECURSIVE messagesOf(_)
messagesOf(events) ==
    IF events = << >> THEN << >>
    ELSE <<Head(events).Message>> \o messagesOf(Tail(events))

\* processEvents with the filter on Kind left out
processEvents_allKinds(events) ==
    IF events = << >>
    THEN [output |-> << >>, hasErrors |-> FALSE]
    ELSE [output |-> joinEmpty(SelectSeq(messagesOf(events), nonEmptyMessage)),
          hasErrors |-> Len(SelectSeq(events, isStderr)) > 0]

processEvents(events) ==
    IF events = << >>
    THEN [output |-> << >>, hasErrors |-> FALSE]
    ELSE [output |-> joinEmpty(SelectSeq(messagesOf(SelectSeq(events, isStdout)),
                                      nonEmptyMessage)),
          hasErrors |-> Len(SelectSeq(events, isStderr)) > 0]

\* ------------------------------------------- go-playground-client.ts
frontendUrl == <<"https://go.dev/play">>

\* An error value is [type |-> "AxiosError", message |-> text] with an
\* optional status field (error.response?.status), a GoPlaygroundError
\* record, or [type |-> "Error", message |-> text].
isAxiosError(error) ==
    /\ "type" \in DOMAIN error
    /\ error.type = "AxiosError"

isGoPlaygroundError(error) ==
    /\ "name" \in DOMAIN error
    /\ error.name = "GoPlaygroundError"

\* handleApiError that never reads error.response?.status
handleApiError_noStatus(error) ==
    IF isAxiosError(error)
    THEN [success |-> FALSE,
          errors |-> <<"HTTP Error: ", "unknown", " - ">> \o error.message]
    ELSE IF isGoPlaygroundError(error)
    THEN [success |-> FALSE,
          errors |-> <<"GoPlayground Error [", error.code, "]: ">>
                     \o error.message]
    ELSE [success |-> FALSE,
          errors |-> <<"Unexpected error: ">> \o error.message]

\* handleApiError reporting the HTTP status of a rejection as the exit code
handleApiError_statusAsExitCode(error) ==
    IF isAxiosError(error)
    THEN IF "status" \in DOMAIN error
         THEN [success |-> FALSE,
               errors |-> <<"HTTP Error: ", ToString(error.status), " - ">>
                          \o error.message,
               exitCode |-> error.status]
         ELSE [success |-> FALSE,
               errors |-> <<"HTTP Error: ", "unknown", " - ">>
                          \o error.message]
    ELSE IF isGoPlaygroundError(error)
    THEN [success |-> FALSE,
          errors |-> <<"GoPlayground Error [", error.code, "]: ">>
                     \o error.message]
    ELSE [success |-> FALSE,
          errors |-> <<"Unexpected error: ">> \o error.message]

handleApiError(error) ==
    IF isAxiosError(error)
    THEN [success |-> FALSE,
          errors |-> <<"HTTP Error: ",
                       IF "status" \in DOMAIN error
                       THEN ToString(error.status) ELSE "unknown",
                       " - ">> \o error.message]
    ELSE IF isGoPlaygroundError(error)
    THEN [success |-> FALSE,
          errors |-> <<"GoPlayground Error [", error.code, "]: ">>
                     \o error.message]
    ELSE [success |-> FALSE,
          errors |-> <<"Unexpected error: ">> \o error.message]

\* result.Errors && result.Errors.trim() !== ''
hasCompileErrors(result) ==
    /\ result.Errors # << >>
    /\ trim(result.Errors) # << >>

\* stderrEvents keeping every event that is not stdout
isNotStdout(event) == event.Kind # "stdout"
stderrEvents_notStdout(result) ==
    IF result.Events.t \in {"undefined", "null"} THEN << >>
    ELSE SelectSeq(result.Events.v, isNotStdout)

\* result.Events?.filter(event => event.Kind === 'stderr') ?? []
stderrEvents(result) ==
    IF result.Events.t \in {"undefined", "null"} THEN << >>
    ELSE SelectSeq(result.Events.v, isStderr)

\* result.Events ?? []
eventsOrEmpty(result) ==
    IF result.Events.t \in {"undefined", "null"} THEN << >>
    ELSE result.Events.v

\* The classifier throws a TypeError when Events is neither absent, null
\* nor an array: Events?.filter is then not a function.
processRunResponseThrows(result) ==
    /\ result.t = "object"
    /\ ~hasCompileErrors(result)
    /\ result.Events.t \notin {"undefined", "null", "array"}

\* processRunResponse returning the captured output next to the errors of a
\* stderr failure
processRunResponse_outputOnFailure(result) ==
    IF result.t # "object"
    THEN [success |-> FALSE,
          errors |-> <<"Invalid response from Go Playground API">>]
    ELSE IF hasCompileErrors(result)
    THEN [success |-> FALSE, errors |-> result.Errors,
          exitCode |-> result.Status]
    ELSE IF Len(stderrEvents(result)) > 0
    THEN [success |-> FALSE,
          errors |-> joinEmpty(messagesOf(stderrEvents(result))),
          output |-> processEvents(eventsOrEmpty(result)).output,
          exitCode |-> result.Status]
    ELSE [success |-> TRUE,
          output |-> processEvents(eventsOrEmpty(result)).output,
          exitCode |-> result.Status]

\* processRunResponse with the stderr check ahead of the Errors check
processRunResponse_stderrFirst(result) ==
    IF result.t # "object"
    THEN [success |-> FALSE,
          errors |-> <<"Invalid response from Go Playground API">>]
    ELSE IF Len(stderrEvents(result)) > 0
    THEN [success |-> FALSE,
          errors |-> joinEmpty(messagesOf(stderrEvents(result))),
          exitCode |-> result.Status]
    ELSE IF hasCompileErrors(result)
    THEN [success |-> FALSE, errors |-> result.Errors,
          exitCode |-> result.Status]
    ELSE [success |-> TRUE,
          output |-> processEvents(eventsOrEmpty(result)).output,
          exitCode |-> result.Status]

processRunResponse(result) ==
    IF result.t # "object"
    THEN [success |-> FALSE,
          errors |-> <<"Invalid response from Go Playground API">>]
    ELSE IF hasCompileErrors(result)
    THEN [success |-> FALSE, errors |-> result.Errors,
          exitCode |-> result.Status]
    ELSE IF Len(stderrEvents(result)) > 0
    THEN [success |-> FALSE,
          errors |-> joinEmpty(messagesOf(stderrEvents(result))),
          exitCode |-> result.Status]
    ELSE [success |-> TRUE,
          output |-> processEvents(eventsOrEmpty(result)).output,
          exitCode |-> result.Status]

\* runGoCode up to its await: either it returns the validation failure at
\* once, or it sends the body of the POST /compile request.
runGoCodeStart(code, withVet) ==
    IF ~validateGoCode(code).success
    THEN [returned |-> TRUE,
          result |-> [success |-> FALSE,
                      errors |-> validateGoCode(code).error.message]]
    ELSE [returned |-> FALSE,
          request |-> [version |-> 2, body |-> validateGoCode(code).data,
                       withVet |-> withVet]]

\* runGoCode after its await.  A settled request is
\* [kind |-> "resolved", data |-> body] or [kind |-> "rejected", error |-> e].
runGoCodeSettled(outcome) ==
    IF outcome.kind = "rejected" THEN handleApiError(outcome.error)
    ELSE IF processRunResponseThrows(outcome.data)
    THEN handleApiError([type |-> "Error",
                         message |-> <<"result.Events?.filter is not a function">>])
    ELSE processRunResponse(outcome.data)

\* shareGoCode up to its await: either it returns null at once, or it sends
\* the validated code as the body of the POST /share request.
shareGoCodeStart(code) ==
    IF ~validateGoCode(code).success
    THEN [returned |-> TRUE, url |-> [t |-> "null"]]
    ELSE [returned |-> FALSE, request |-> validateGoCode(code).data]

\* shareGoCodeSettled building a link from the missing data of a rejection
shareGoCodeSettled_noCatch(outcome) ==
    IF outcome.kind = "rejected"
    THEN [t |-> "string", v |-> frontendUrl \o <<"/p/", "undefined">>]
    ELSE [t |-> "string", v |-> frontendUrl \o <<"/p/">> \o outcome.data]

\* shareGoCode after its await: a ShareUrl or null
shareGoCodeSettled(outcome) ==
    IF outcome.kind = "rejected" THEN [t |-> "null"]
    ELSE [t |-> "string", v |-> frontendUrl \o <<"/p/">> \o outcome.data]

\* mergeResults turning a missing share link into a Failure
mergeResults_failOnNoShare(run, url) ==
    IF url.t = "null"
    THEN [success |-> FALSE, errors |-> <<"Failed to share code">>]
    ELSE run @@ ("shareUrl" :> url.v)

\* mergeResults attaching the share link to a Success only
mergeResults_urlOnSuccessOnly(run, url) ==
    IF run.success
    THEN IF url.t = "null" THEN run ELSE run @@ ("shareUrl" :> url.v)
    ELSE run

\* runAndShareGoCode: { ...runResult, shareUrl: shareUrl ?? undefined }.
\* A shareUrl of undefined is modelled as an absent field.
mergeResults(run, url) ==
    IF run.success
    THEN IF url.t = "null" THEN run ELSE run @@ ("shareUrl" :> url.v)
    ELSE IF url.t = "null" THEN run ELSE run @@ ("shareUrl" :> url.v)

\* ------------------------------------------------------ mcp-server.ts
\* The emoji that open the marker lines are left out of the literals, and
\* the code fence of three backquotes is written "~~~".
formatSuccessResponse(result) ==
    joinNewline(<< <<"Code executed successfully!\n">>,
                   <<"**Output:**">>,
                   <<"~~~">>,
                   IF result.output # << >> THEN result.output
                   ELSE <<"(no output)">>,
                   <<"~~~\n">>,
                   <<"**Exit Code:** ", ToString(result.exitCode)>> >>)

\* formatFailureResponse pushing the Exit Code line unconditionally
formatFailureResponse_alwaysExitCode(result) ==
    joinNewline(<< <<"Code execution failed!\n">>,
                   <<"**Errors:**">>,
                   <<"~~~">>,
                   result.errors,
                   <<"~~~\n">>,
                   <<"**Exit Code:** ",
                     IF "exitCode" \in DOMAIN result
                     THEN ToString(result.exitCode) ELSE "undefined">> >>)

formatFailureResponse(result) ==
    joinNewline(<< <<"Code execution failed!\n">>,
                   <<"**Errors:**">>,
                   <<"~~~">>,
                   result.errors,
                   <<"~~~\n">> >>
                \o (IF "exitCode" \in DOMAIN result
                    THEN << <<"**Exit Code:** ", ToString(result.exitCode)>> >>
                    ELSE << >>))

formatRunResponse(result) ==
    IF result.success THEN formatSuccessResponse(result)
    ELSE formatFailureResponse(result)

formatRunAndShareResponse(result) ==
    formatRunResponse(result)
    \o (IF "shareUrl" \in DOMAIN result /\ result.shareUrl # << >>
        THEN <<"\n**Share URL:** ">> \o result.shareUrl
        ELSE <<"\nFailed to generate share URL">>)

formatShareResponse(shareUrl) ==
    IF shareUrl.t = "string" /\ shareUrl.v # << >>
    THEN <<"Code shared successfully!\n\n**Share URL:** ">> \o shareUrl.v
    ELSE <<"Failed to share code. Please try again.">>

createSuccessResponse(text) ==
    [content |-> <<[type |-> "text", text |-> text]>>]

createErrorResponse(error) ==
    IF isGoPlaygroundError(error)
    THEN [content |-> <<[type |-> "text",
                         text |-> <<"Error [", error.code, "]: ">>
                                  \o error.message]>>]
    ELSE IF "type" \in DOMAIN error
    THEN [content |-> <<[type |-> "text",
                         text |-> <<"Error: ">> \o error.message]>>]
    ELSE [content |-> <<[type |-> "text",
                         text |-> <<"Unexpected error: ">> \o error.message]>>]

\* withVetOf ignoring the supplied flag
withVetOf_alwaysTrue(args) == TRUE

\* const { code, withVet = true } = args
withVetOf(args) ==
    IF "withVet" \in DOMAIN args.f THEN args.f.withVet.v ELSE TRUE

\* ------------------------------------------------------------- inputs
CodeTexts == {<< >>, <<" ">>, <<"a">>, <<" ", "a">>}
ErrorTexts == {<< >>, <<" ">>, <<"\n", " ">>, <<"e">>, <<" ", "e", "\n">>}
EventMessages == {<< >>, <<"x">>, <<"y">>}
EventKinds == {"stdout", "stderr", "exit"}
StatusValues == {0, 2}
HttpStatusValues == {404, 500}
ShareIds == {<<"A">>, <<"B">>}

ToolNameValues ==
    {[t |-> "string", v |-> <<n>>] : n \in TOOL_NAMES \cup {"delete_everything"}}

CodeValues ==
    {[t |-> "string", v |-> c] : c \in CodeTexts}
    \cup {[t |-> "number", v |-> 42]}

WithVetValues ==
    {[t |-> "boolean", v |-> b] : b \in BOOLEAN}
    \cup {[t |-> "string", v |-> <<"yes">>]}

EmptyFields == [x \in {} |-> x]

ArgumentBags ==
    {[t |-> "undefined"], [t |-> "null"], [t |-> "object", f |-> EmptyFields]}
    \cup {[t |-> "object", f |-> ("code" :> c)] : c \in CodeValues}
    \cup {[t |-> "object", f |-> ("withVet" :> w)] : w \in WithVetValues}
    \cup {[t |-> "object", f |-> ("code" :> c) @@ ("withVet" :> w)] :
              c \in CodeValues, w \in WithVetValues}

Events == [Message : EventMessages, Kind : EventKinds]

EventsValues ==
    {[t |-> "undefined"], [t |-> "null"], [t |-> "number", v |-> 5]}
    \cup {[t |-> "array", v |-> es] : es \in SeqsUpTo(Events, MaxEvents)}

\* response.data of POST /compile
ResponseBodies ==
    {[t |-> "null"], [t |-> "string", v |-> << >>]}
    \cup [t : {"object"}, Errors : ErrorTexts,
          Events : EventsValues, Status : StatusValues]

\* The rejections of client.post: a timeout and a connection error carry no
\* response, a status outside 2xx carries it.
AxiosErrors ==
    {[type |-> "AxiosError", message |-> <<"timeout of 30000ms exceeded">>],
     [type |-> "AxiosError", message |-> <<"Network Error">>]}
    \cup {[type |-> "AxiosError", status |-> st,
           message |-> <<"Request failed with status code ", ToString(st)>>] :
              st \in HttpStatusValues}

ExecuteOutcomes ==
    {[kind |-> "resolved", data |-> d] : d \in ResponseBodies}
    \cup {[kind |-> "rejected", error |-> e] : e \in AxiosErrors}

ShareOutcomes ==
    {[kind |-> "resolved", data |-> d] : d \in ShareIds}
    \cup {[kind |-> "rejected", error |-> e] : e \in AxiosErrors}

\* -------------------------------------------------------------- state
VARIABLES
    pc,             \* "idle", "awaitExecute", "awaitShare" or "done"
    name,           \* request.params.name of the invocation
    args,           \* request.params.arguments of the invocation
    execRequests,   \* bodies posted to /compile by the invocation
    shareRequests,  \* bodies posted to /share by the invocation
    execOutcome,    \* how the /compile request settled
    shareOutcome,   \* how the /share request settled
    runResult,      \* what runCode returned
    shareUrl,       \* what shareCode returned
    result,         \* what the client function of the tool returned
    responses,      \* responses handed back to the transport
    raised,         \* where an exception was thrown during the invocation
    settled         \* the requests of the invocation in the order they settled

vars == <<pc, name, args, execRequests, shareRequests, execOutcome,
          shareOutcome, runResult, shareUrl, result, responses, raised,
          settled>>

NoOutcome == [kind |-> "none"]
NoResult == [none |-> TRUE]
NoUrl == [t |-> "undefined"]

Init ==
    /\ pc = "idle"
    /\ name = [t |-> "undefined"]
    /\ args = [t |-> "undefined"]
    /\ execRequests = << >>
    /\ shareRequests = << >>
    /\ execOutcome = NoOutcome
    /\ shareOutcome = NoOutcome
    /\ runResult = NoResult
    /\ shareUrl = NoUrl
    /\ result = NoResult
    /\ responses = << >>
    /\ raised = {}
    /\ settled = << >>

\* A CallToolRequest arrives at the request handler.
Receive(n, a) ==
    /\ pc = "idle"
    /\ name' = n
    /\ args' = a
    /\ execOutcome' = NoOutcome
    /\ shareOutcome' = NoOutcome
    /\ raised' = {}
    /\ settled' = << >>

isToolArgs(toolName, a) ==
    IF toolName = "run_go_code" THEN isRunGoCodeArgs(a)
    ELSE IF toolName = "share_go_code" THEN isShareGoCodeArgs(a)
    ELSE isRunAndShareGoCodeArgs(a)

\* setupToolHandlers: the name is not a tool name
CallUnknownTool(n, a) ==
    /\ Receive(n, a)
    /\ shareUrl' = NoUrl
    /\ ~isValidToolName(n)
    /\ responses' = <<createErrorResponse(createGoPlaygroundError(
                          <<"Unknown tool: ">> \o n.v, "VALIDATION_ERROR"))>>
    /\ pc' = "done"
    /\ execRequests' = << >>
    /\ shareRequests' = << >>
    /\ runResult' = NoResult
    /\ result' = NoResult

\* createToolRouter: the type guard of the tool rejects the arguments
CallInvalidArguments(n, a) ==
    /\ Receive(n, a)
    /\ shareUrl' = NoUrl
    /\ isValidToolName(n)
    /\ ~isToolArgs(n.v[1], a)
    /\ responses' = <<createErrorResponse(createGoPlaygroundError(
                          <<"Invalid arguments for ">> \o n.v,
                          "VALIDATION_ERROR"))>>
    /\ pc' = "done"
    /\ execRequests' = << >>
    /\ shareRequests' = << >>
    /\ runResult' = NoResult
    /\ result' = NoResult

\* createRunGoCodeHandler up to the await inside client.runCode
CallRunGoCode(n, a) ==
    /\ Receive(n, a)
    /\ shareUrl' = NoUrl
    /\ isValidToolName(n)
    /\ n.v = <<"run_go_code">>
    /\ isRunGoCodeArgs(a)
    /\ LET start == runGoCodeStart(a.f.code.v, withVetOf(a)) IN
       IF start.returned
       THEN /\ runResult' = start.result
            /\ result' = start.result
            /\ responses' = <<createSuccessResponse(
                                  formatRunResponse(start.result))>>
            /\ pc' = "done"
            /\ execRequests' = << >>
       ELSE /\ runResult' = NoResult
            /\ result' = NoResult
            /\ responses' = << >>
            /\ pc' = "awaitExecute"
            /\ execRequests' = <<start.request>>
    /\ shareRequests' = << >>

\* createShareGoCodeHandler up to the await inside client.shareCode
CallShareGoCode(n, a) ==
    /\ Receive(n, a)
    /\ isValidToolName(n)
    /\ n.v = <<"share_go_code">>
    /\ isShareGoCodeArgs(a)
    /\ LET start == shareGoCodeStart(a.f.code.v) IN
       IF start.returned
       THEN /\ shareUrl' = start.url
            /\ responses' = <<createSuccessResponse(
                                  formatShareResponse(start.url))>>
            /\ pc' = "done"
            /\ shareRequests' = << >>
       ELSE /\ shareUrl' = NoUrl
            /\ responses' = << >>
            /\ pc' = "awaitShare"
            /\ shareRequests' = <<start.request>>
    /\ execRequests' = << >>
    /\ runResult' = NoResult
    /\ result' = NoResult

\* AfterRunCode answering at once, without sharing, when runCode failed
AfterRunCode_skipShareOnFailure(code, run, sent) ==
    /\ runResult' = run
    /\ LET start == IF run.success THEN shareGoCodeStart(code)
                    ELSE [returned |-> TRUE, url |-> [t |-> "null"]] IN
       IF start.returned
       THEN /\ shareUrl' = start.url
            /\ result' = mergeResults(run, start.url)
            /\ responses' = Append(sent, createSuccessResponse(
                                formatRunAndShareResponse(
                                    mergeResults(run, start.url))))
            /\ pc' = "done"
            /\ shareRequests' = << >>
       ELSE /\ shareUrl' = NoUrl
            /\ result' = NoResult
            /\ responses' = sent
            /\ pc' = "awaitShare"
            /\ shareRequests' = <<start.request>>

\* runAndShareGoCode from the return of runCode to the await inside
\* shareCode; sent holds the responses of the invocation so far.
AfterRunCode(code, run, sent) ==
    /\ runResult' = run
    /\ LET start == shareGoCodeStart(code) IN
       IF start.returned
       THEN /\ shareUrl' = start.url
            /\ result' = mergeResults(run, start.url)
            /\ responses' = Append(sent, createSuccessResponse(
                                formatRunAndShareResponse(
                                    mergeResults(run, start.url))))
            /\ pc' = "done"
            /\ shareRequests' = << >>
       ELSE /\ shareUrl' = NoUrl
            /\ result' = NoResult
            /\ responses' = sent
            /\ pc' = "awaitShare"
            /\ shareRequests' = <<start.request>>

\* createRunAndShareGoCodeHandler up to the first await of runAndShareGoCode
CallRunAndShareGoCode(n, a) ==
    /\ Receive(n, a)
    /\ isValidToolName(n)
    /\ n.v = <<"run_and_share_go_code">>
    /\ isRunAndShareGoCodeArgs(a)
    /\ LET code == a.f.code.v
           validationResult == validateGoCode(code)
           start == runGoCodeStart(code, withVetOf(a))
       IN  IF ~validationResult.success
           THEN /\ runResult' = NoResult
                /\ shareUrl' = NoUrl
                /\ result' = [success |-> FALSE,
                              errors |-> validationResult.error.message]
                /\ responses' = <<createSuccessResponse(
                                      formatRunAndShareResponse(
                                          [success |-> FALSE,
                                           errors |-> validationResult.error.message]))>>
                /\ pc' = "done"
                /\ execRequests' = << >>
                /\ shareRequests' = << >>
           ELSE IF start.returned
           THEN /\ execRequests' = << >>
                /\ AfterRunCode(validationResult.data, start.result, << >>)
           ELSE /\ runResult' = NoResult
                /\ shareUrl' = NoUrl
                /\ result' = NoResult
                /\ responses' = << >>
                /\ pc' = "awaitExecute"
                /\ execRequests' = <<start.request>>
                /\ shareRequests' = << >>

\* What the settling of POST /compile throws inside runGoCode
raisedByExecute(outcome) ==
    IF outcome.kind = "rejected" THEN {"remote call"}
    ELSE IF processRunResponseThrows(outcome.data) THEN {"classification"}
    ELSE {}

\* What the settling of POST /share throws inside shareGoCode
raisedByShare(outcome) ==
    IF outcome.kind = "rejected" THEN {"remote call"} ELSE {}

\* RunGoCodeSettles posting the request once more after a rejection
RunGoCodeSettles_retry(outcome) ==
    /\ pc = "awaitExecute"
    /\ name.v = <<"run_go_code">>
    /\ IF outcome.kind = "rejected" /\ Len(execRequests) < 2
       THEN /\ execRequests' = Append(execRequests, execRequests[1])
            /\ UNCHANGED <<pc, execOutcome, raised, runResult, result,
                           responses, settled>>
       ELSE /\ execOutcome' = outcome
            /\ settled' = Append(settled, "execute")
            /\ raised' = raised \cup raisedByExecute(outcome)
            /\ runResult' = runGoCodeSettled(outcome)
            /\ result' = runGoCodeSettled(outcome)
            /\ responses' = Append(responses, createSuccessResponse(
                                formatRunResponse(runGoCodeSettled(outcome))))
            /\ pc' = "done"
            /\ UNCHANGED execRequests
    /\ UNCHANGED <<name, args, shareRequests, shareOutcome, shareUrl>>

\* run_go_code: POST /compile settles, runCode returns, the handler answers
RunGoCodeSettles(outcome) ==
    /\ pc = "awaitExecute"
    /\ name.v = <<"run_go_code">>
    /\ execOutcome' = outcome
    /\ settled' = Append(settled, "execute")
    /\ raised' = raised \cup raisedByExecute(outcome)
    /\ runResult' = runGoCodeSettled(outcome)
    /\ result' = runGoCodeSettled(outcome)
    /\ responses' = Append(responses, createSuccessResponse(
                        formatRunResponse(runGoCodeSettled(outcome))))
    /\ pc' = "done"
    /\ UNCHANGED <<name, args, execRequests, shareRequests, shareOutcome,
                   shareUrl>>

\* run_and_share_go_code: POST /compile settles, runCode returns, shareCode
\* is called
RunAndShareExecuteSettles(outcome) ==
    /\ pc = "awaitExecute"
    /\ name.v = <<"run_and_share_go_code">>
    /\ execOutcome' = outcome
    /\ settled' = Append(settled, "execute")
    /\ raised' = raised \cup raisedByExecute(outcome)
    /\ AfterRunCode(args.f.code.v, runGoCodeSettled(outcome), responses)
    /\ UNCHANGED <<name, args, execRequests, shareOutcome>>

\* ShareGoCodeSettles letting a rejection escape: the handler ends without
\* a response
ShareGoCodeSettles_unanswered(outcome) ==
    /\ pc = "awaitShare"
    /\ name.v = <<"share_go_code">>
    /\ shareOutcome' = outcome
    /\ settled' = Append(settled, "share")
    /\ raised' = raised \cup raisedByShare(outcome)
    /\ shareUrl' = shareGoCodeSettled(outcome)
    /\ responses' = IF outcome.kind = "rejected" THEN responses
                    ELSE Append(responses, createSuccessResponse(
                             formatShareResponse(shareGoCodeSettled(outcome))))
    /\ pc' = "done"
    /\ UNCHANGED <<name, args, execRequests, shareRequests, execOutcome,
                   runResult, result>>

\* share_go_code: POST /share settles, shareCode returns, the handler answers
ShareGoCodeSettles(outcome) ==
    /\ pc = "awaitShare"
    /\ name.v = <<"share_go_code">>
    /\ shareOutcome' = outcome
    /\ settled' = Append(settled, "share")
    /\ raised' = raised \cup raisedByShare(outcome)
    /\ shareUrl' = shareGoCodeSettled(outcome)
    /\ responses' = Append(responses, createSuccessResponse(
                        formatShareResponse(shareGoCodeSettled(outcome))))
    /\ pc' = "done"
    /\ UNCHANGED <<name, args, execRequests, shareRequests, execOutcome,
                   runResult, result>>

\* run_and_share_go_code: POST /share settles, shareCode returns, the results
\* are merged and the handler answers
RunAndShareShareSettles(outcome) ==
    /\ pc = "awaitShare"
    /\ name.v = <<"run_and_share_go_code">>
    /\ shareOutcome' = outcome
    /\ settled' = Append(settled, "share")
    /\ raised' = raised \cup raisedByShare(outcome)
    /\ shareUrl' = shareGoCodeSettled(outcome)
    /\ result' = mergeResults(runResult, shareGoCodeSettled(outcome))
    /\ responses' = Append(responses, createSuccessResponse(
                        formatRunAndShareResponse(
                            mergeResults(runResult,
                                         shareGoCodeSettled(outcome)))))
    /\ pc' = "done"
    /\ UNCHANGED <<name, args, execRequests, shareRequests, execOutcome,
                   runResult>>

\* The request handler has returned its response to the server, which waits
\* for the next request; no state of the invocation outlives it.
Return ==
    /\ pc = "done"
    /\ pc' = "idle"
    /\ name' = [t |-> "undefined"]
    /\ args' = [t |-> "undefined"]
    /\ execRequests' = << >>
    /\ shareRequests' = << >>
    /\ execOutcome' = NoOutcome
    /\ shareOutcome' = NoOutcome
    /\ runResult' = NoResult
    /\ shareUrl' = NoUrl
    /\ result' = NoResult
    /\ responses' = << >>
    /\ raised' = {}
    /\ settled' = << >>

\* The guards on pc are repeated in front of the quantifiers so that the
\* inputs are enumerated only where the step is enabled.
Settle ==
    \/ pc = "awaitExecute" /\ \E o \in ExecuteOutcomes : RunGoCodeSettles(o)
    \/ pc = "awaitExecute" /\ \E o \in ExecuteOutcomes : RunAndShareExecuteSettles(o)
    \/ pc = "awaitShare" /\ \E o \in ShareOutcomes : ShareGoCodeSettles(o)
    \/ pc = "awaitShare" /\ \E o \in ShareOutcomes : RunAndShareShareSettles(o)

Next ==
    \/ pc = "idle" /\ \E n \in ToolNameValues, a \in ArgumentBags : CallUnknownTool(n, a)
    \/ pc = "idle" /\ \E n \in ToolNameValues, a \in ArgumentBags : CallInvalidArguments(n, a)
    \/ pc = "idle" /\ \E n \in ToolNameValues, a \in ArgumentBags : CallRunGoCode(n, a)
    \/ pc = "idle" /\ \E n \in ToolNameValues, a \in ArgumentBags : CallShareGoCode(n, a)
    \/ pc = "idle" /\ \E n \in ToolNameValues, a \in ArgumentBags : CallRunAndShareGoCode(n, a)
    \/ pc = "awaitExecute" /\ \E o \in ExecuteOutcomes : RunGoCodeSettles(o)
    \/ pc = "awaitExecute" /\ \E o \in ExecuteOutcomes : RunAndShareExecuteSettles(o)
    \/ pc = "awaitShare" /\ \E o \in ShareOutcomes : ShareGoCodeSettles(o)
    \/ pc = "awaitShare" /\ \E o \in ShareOutcomes : RunAndShareShareSettles(o)
    \/ Return

Spec == Init /\ [][Next]_vars

\* A step in which an outstanding request settles and its await resumes.
\* Every step of Next that leaves an await is a Settle step, and Settle is
\* enabled in every state that awaits, so fairness on this step is fairness
\* on Settle; it is written on pc alone to be recognised without
\* enumerating the outcomes.
AwaitResumes ==
    /\ pc \in {"awaitExecute", "awaitShare"}
    /\ pc' \in {"awaitShare", "done"}
    /\ pc' # pc

\* Every request is sent with the configured timeout, so each outstanding
\* request settles.
FairSpec == Spec /\ WF_pc(AwaitResumes)

\* ------------------------------------------- concurrent issuing
\* The combined tool with its two requests issued together, as the
\* specification allows: both are outstanding at once and settle in either
\* order; each outcome is captured by the client function of its request
\* and the merge is applied when both have settled.
CallRunAndShareConcurrently(n, a) ==
    /\ Receive(n, a)
    /\ isValidToolName(n)
    /\ n.v = <<"run_and_share_go_code">>
    /\ isRunAndShareGoCodeArgs(a)
    /\ validateGoCode(a.f.code.v).success
    /\ execRequests' = <<runGoCodeStart(a.f.code.v, withVetOf(a)).request>>
    /\ shareRequests' = <<shareGoCodeStart(a.f.code.v).request>>
    /\ pc' = "awaitBoth"
    /\ runResult' = NoResult
    /\ shareUrl' = NoUrl
    /\ result' = NoResult
    /\ responses' = << >>

\* Both outstanding, POST /compile settles first
ConcurrentExecuteSettlesFirst(outcome) ==
    /\ pc = "awaitBoth"
    /\ execOutcome' = outcome
    /\ settled' = Append(settled, "execute")
    /\ raised' = raised \cup raisedByExecute(outcome)
    /\ runResult' = runGoCodeSettled(outcome)
    /\ pc' = "awaitShare"
    /\ UNCHANGED <<name, args, execRequests, shareRequests, shareOutcome,
                   shareUrl, result, responses>>

\* Both outstanding, POST /share settles first
ConcurrentShareSettlesFirst(outcome) ==
    /\ pc = "awaitBoth"
    /\ shareOutcome' = outcome
    /\ settled' = Append(settled, "share")
    /\ raised' = raised \cup raisedByShare(outcome)
    /\ shareUrl' = shareGoCodeSettled(outcome)
    /\ pc' = "awaitExecuteLast"
    /\ UNCHANGED <<name, args, execRequests, shareRequests, execOutcome,
                   runResult, result, responses>>

\* POST /compile settles after POST /share: the results are merged and the
\* handler answers
ConcurrentExecuteSettlesLast(outcome) ==
    /\ pc = "awaitExecuteLast"
    /\ execOutcome' = outcome
    /\ settled' = Append(settled, "execute")
    /\ raised' = raised \cup raisedByExecute(outcome)
    /\ runResult' = runGoCodeSettled(outcome)
    /\ result' = mergeResults(runGoCodeSettled(outcome), shareUrl)
    /\ responses' = Append(responses, createSuccessResponse(
                        formatRunAndShareResponse(
                            mergeResults(runGoCodeSettled(outcome),
                                         shareUrl))))
    /\ pc' = "done"
    /\ UNCHANGED <<name, args, execRequests, shareRequests, shareOutcome,
                   shareUrl>>

\* The steps of the server with the combined tool issuing its requests
\* either one after the other or together
ConcNext ==
    \/ Next
    \/ pc = "idle" /\ \E n \in ToolNameValues, a \in ArgumentBags : CallRunAndShareConcurrently(n, a)
    \/ pc = "awaitBoth" /\ \E o \in ExecuteOutcomes : ConcurrentExecuteSettlesFirst(o)
    \/ pc = "awaitBoth" /\ \E o \in ShareOutcomes : ConcurrentShareSettlesFirst(o)
    \/ pc = "awaitExecuteLast" /\ \E o \in ExecuteOutcomes : ConcurrentExecuteSettlesLast(o)

ConcSpec == Init /\ [][ConcNext]_vars

\* ===================================================================
\* Properties
\* ===================================================================

\* POST /compile was answered with a body of type GoPlaygroundResponse
ReceivedResponse ==
    /\ execOutcome.kind = "resolved"
    /\ execOutcome.data.t = "object"
    /\ execOutcome.data.Events.t \in {"undefined", "null", "array"}

\* The events of the received body, none when Events is absent or null
ReceivedEvents ==
    IF execOutcome.data.Events.t = "array" THEN execOutcome.data.Events.v
    ELSE << >>

\* The concatenation, in emission order, of the Message of the events of
\* one kind
RECURSIVE ConcatOfKind(_, _)
ConcatOfKind(events, kind) ==
    IF events = << >> THEN << >>
    ELSE (IF Head(events).Kind = kind THEN Head(events).Message ELSE << >>)
         \o ConcatOfKind(Tail(events), kind)

HasKind(events, kind) == \E i \in 1..Len(events) : events[i].Kind = kind

IsFailure(r, errors, exitCode) ==
    /\ r.success = FALSE
    /\ r.errors = errors
    /\ "exitCode" \in DOMAIN r
    /\ r.exitCode = exitCode
    /\ "output" \notin DOMAIN r

IsSuccess(r, output, exitCode) ==
    /\ r.success = TRUE
    /\ r.output = output
    /\ r.exitCode = exitCode
    /\ "errors" \notin DOMAIN r

\* C1 as stated: whenever run_go_code received a response whose Errors text
\* is non-empty, its result is a Failure with errors = Errors and
\* exitCode = Status, whatever the Events.
C1_NonEmptyErrorsFail ==
    (/\ pc = "done"
     /\ name.v = <<"run_go_code">>
     /\ ReceivedResponse
     /\ execOutcome.data.Errors # << >>)
    => IsFailure(result, execOutcome.data.Errors, execOutcome.data.Status)

\* C1 amended: whenever run_go_code received a response whose Errors text
\* is non-empty after trimming whitespace, its result is a Failure with
\* errors = Errors (untrimmed) and exitCode = Status, whatever the Events.
C1_NonBlankErrorsFail ==
    (/\ pc = "done"
     /\ name.v = <<"run_go_code">>
     /\ ReceivedResponse
     /\ trim(execOutcome.data.Errors) # << >>)
    => IsFailure(result, execOutcome.data.Errors, execOutcome.data.Status)

\* C1 witness: compile errors together with a stderr and a stdout event
C1_Witness ==
    /\ pc = "done"
    /\ name.v = <<"run_go_code">>
    /\ ReceivedResponse
    /\ execOutcome.data.Errors = <<" ", "e", "\n">>
    /\ HasKind(ReceivedEvents, "stderr")
    /\ HasKind(ReceivedEvents, "stdout")
    /\ execOutcome.data.Status = 2
    /\ IsFailure(result, <<" ", "e", "\n">>, 2)

\* C2: whenever the run tool received a response with empty Errors and at
\* least one stderr event, its result is a Failure whose errors is the
\* concatenation of the stderr messages in emission order and whose
\* exitCode is Status, also when Status is 0.
C2_StderrFails ==
    (/\ pc = "done"
     /\ name.v = <<"run_go_code">>
     /\ ReceivedResponse
     /\ execOutcome.data.Errors = << >>
     /\ HasKind(ReceivedEvents, "stderr"))
    => IsFailure(result, ConcatOfKind(ReceivedEvents, "stderr"),
                 execOutcome.data.Status)

\* C2 witness: two different stderr messages around a stdout event, Status 0
C2_Witness ==
    /\ pc = "done"
    /\ name.v = <<"run_go_code">>
    /\ ReceivedResponse
    /\ execOutcome.data.Errors = << >>
    /\ execOutcome.data.Status = 0
    /\ Len(ReceivedEvents) = MaxEvents
    /\ ReceivedEvents[1] = [Message |-> <<"y">>, Kind |-> "stderr"]
    /\ ReceivedEvents[MaxEvents] = [Message |-> <<"x">>, Kind |-> "stderr"]
    /\ result.success = FALSE
    /\ result.errors[1] = "y"
    /\ result.errors[Len(result.errors)] = "x"

\* C3: whenever the run tool received a response with empty Errors and no
\* stderr event (Events absent, null or empty included), its result is a
\* Success whose output is the concatenation of the non-empty stdout
\* messages in emission order and whose exitCode is Status.
C3_StdoutSucceeds ==
    (/\ pc = "done"
     /\ name.v = <<"run_go_code">>
     /\ ReceivedResponse
     /\ execOutcome.data.Errors = << >>
     /\ ~HasKind(ReceivedEvents, "stderr"))
    => IsSuccess(result, ConcatOfKind(ReceivedEvents, "stdout"),
                 execOutcome.data.Status)

\* C3 witness: an exit event with a message next to a stdout event
C3_Witness ==
    /\ pc = "done"
    /\ name.v = <<"run_go_code">>
    /\ ReceivedResponse
    /\ execOutcome.data.Errors = << >>
    /\ Len(ReceivedEvents) = 2
    /\ ReceivedEvents[1] = [Message |-> <<"y">>, Kind |-> "stdout"]
    /\ ReceivedEvents[2] = [Message |-> <<"x">>, Kind |-> "exit"]
    /\ IsSuccess(result, <<"y">>, execOutcome.data.Status)

\* A result without its shareUrl field
WithoutShareUrl(r) == [f \in DOMAIN r \ {"shareUrl"} |-> r[f]]

\* C4: in run_and_share_go_code the merged result has the discriminant,
\* output, errors and exitCode of the execute result for every share
\* outcome, and no shareUrl when the share request failed.
C4_MergeKeepsRunResult ==
    (/\ pc = "done"
     /\ name.v = <<"run_and_share_go_code">>
     /\ shareOutcome.kind # "none")
    => /\ result.success = runResult.success
       /\ WithoutShareUrl(result) = runResult
       /\ shareOutcome.kind = "rejected" => "shareUrl" \notin DOMAIN result

\* C4 witness: execute succeeded with output, the share request failed
C4_Witness ==
    /\ pc = "done"
    /\ name.v = <<"run_and_share_go_code">>
    /\ shareOutcome.kind = "rejected"
    /\ runResult.success
    /\ runResult.output = <<"x">>
    /\ IsSuccess(result, <<"x">>, runResult.exitCode)
    /\ "shareUrl" \notin DOMAIN result

\* C5: in run_and_share_go_code with valid arguments, once runCode has
\* returned (whatever its outcome) exactly one share request carrying the
\* code has been issued, and when it succeeds the merged result carries
\* shareUrl = frontendUrl/p/<identifier> on the variant execute produced.
C5_ShareIssuedAndAttached ==
    (/\ pc \in {"awaitShare", "done"}
     /\ name.v = <<"run_and_share_go_code">>
     /\ isRunAndShareGoCodeArgs(args))
    => /\ execOutcome.kind # "none"
       /\ shareRequests = <<args.f.code.v>>
       /\ (pc = "done" /\ shareOutcome.kind = "resolved")
          => /\ "shareUrl" \in DOMAIN result
             /\ result.shareUrl = frontendUrl \o <<"/p/">> \o shareOutcome.data
             /\ result.success = runResult.success

\* C5 witness: the execute request failed in transport, the share succeeded
C5_Witness ==
    /\ pc = "done"
    /\ name.v = <<"run_and_share_go_code">>
    /\ execOutcome.kind = "rejected"
    /\ shareOutcome = [kind |-> "resolved", data |-> <<"B">>]
    /\ result.success = FALSE
    /\ result.shareUrl = <<"https://go.dev/play", "/p/", "B">>

\* The code argument is missing, not a string, empty or whitespace-only
CodeArgumentInvalid(a) ==
    IF a.t # "object" THEN TRUE
    ELSE IF "code" \notin DOMAIN a.f THEN TRUE
    ELSE IF a.f.code.t # "string" THEN TRUE
    ELSE \A i \in 1..Len(a.f.code.v) : a.f.code.v[i] \in {" ", "\n"}

\* The responses are one text response "Error [VALIDATION_ERROR]: message"
IsValidationError(rs, message) ==
    /\ Len(rs) = 1
    /\ Len(rs[1].content) = 1
    /\ rs[1].content[1].type = "text"
    /\ rs[1].content[1].text
           = <<"Error [", "VALIDATION_ERROR", "]: ">> \o message

\* C6: for each of the three tools, an invocation whose code argument is
\* missing, not a string, empty or whitespace-only is answered with the
\* VALIDATION_ERROR response and issues no execute or share request.
C6_InvalidCodeRejected ==
    (/\ pc # "idle"
     /\ name.v[1] \in TOOL_NAMES
     /\ CodeArgumentInvalid(args))
    => /\ pc = "done"
       /\ IsValidationError(responses, <<"Invalid arguments for ", name.v[1]>>)
       /\ execRequests = << >>
       /\ shareRequests = << >>

\* C6 witness: run_and_share_go_code called with a whitespace-only code
C6_Witness ==
    /\ pc = "done"
    /\ name.v = <<"run_and_share_go_code">>
    /\ args.t = "object"
    /\ DOMAIN args.f = {"code", "withVet"}
    /\ args.f.code = [t |-> "string", v |-> <<" ">>]
    /\ args.f.withVet.t = "boolean"
    /\ IsValidationError(responses,
                         <<"Invalid arguments for ", "run_and_share_go_code">>)
    /\ execRequests = << >>
    /\ shareRequests = << >>

\* C7: an invocation whose name is none of the three tool names is answered
\* with the same VALIDATION_ERROR response whatever its arguments, and
\* issues no execute or share request.
C7_UnknownToolRejected ==
    (/\ pc # "idle"
     /\ name.v[1] \notin TOOL_NAMES)
    => /\ pc = "done"
       /\ IsValidationError(responses, <<"Unknown tool: ">> \o name.v)
       /\ execRequests = << >>
       /\ shareRequests = << >>

\* C7 witness: an unknown tool called with arguments valid for every tool
C7_Witness ==
    /\ pc = "done"
    /\ name.v = <<"delete_everything">>
    /\ isRunGoCodeArgs(args)
    /\ "withVet" \in DOMAIN args.f
    /\ IsValidationError(responses, <<"Unknown tool: ", "delete_everything">>)
    /\ execRequests = << >>

\* A result carries an error kind as a code field or as a part of its text
CarriesErrorKind(r, kind) ==
    \/ "code" \in DOMAIN r /\ r.code = kind
    \/ \E i \in 1..Len(r.errors) : r.errors[i] = kind

\* The text of the HTTP status of a rejection, "unknown" when it has none
StatusText(error) ==
    IF "status" \in DOMAIN error THEN ToString(error.status) ELSE "unknown"

\* C8 as stated: when the execute request fails in transport, the execute
\* operation fails with error kind NETWORK_ERROR and the failure carries the
\* HTTP status whenever there is one.
C8_ExecuteNetworkError ==
    (execOutcome.kind = "rejected")
    => /\ runResult.success = FALSE
       /\ CarriesErrorKind(runResult, "NETWORK_ERROR")
       /\ "status" \in DOMAIN execOutcome.error
          => \E i \in 1..Len(runResult.errors) :
                 runResult.errors[i] = ToString(execOutcome.error.status)

\* C8 amended: when the execute request fails in transport, runCode returns
\* a Failure without exitCode and without an error kind, whose errors text
\* is "HTTP Error: <status> - <message>", with "unknown" for the status when
\* the remote service returned none.
C8_ExecuteHttpErrorText ==
    (execOutcome.kind = "rejected")
    => /\ runResult = [success |-> FALSE,
                       errors |-> <<"HTTP Error: ",
                                    StatusText(execOutcome.error), " - ">>
                                  \o execOutcome.error.message]
       /\ ~CarriesErrorKind(runResult, "NETWORK_ERROR")

\* C8 witness: run_go_code answered with HTTP status 500
C8_Witness ==
    /\ pc = "done"
    /\ name.v = <<"run_go_code">>
    /\ execOutcome.kind = "rejected"
    /\ "status" \in DOMAIN execOutcome.error
    /\ execOutcome.error.status = 500
    /\ result.success = FALSE
    /\ result.errors[1] = "HTTP Error: "
    /\ result.errors[2] = "500"

\* C9 as stated: when the share request of share_go_code fails in
\* transport, the caller is answered with a NETWORK_ERROR error response.
C9_ShareNetworkError ==
    (/\ pc = "done"
     /\ name.v = <<"share_go_code">>
     /\ shareOutcome.kind = "rejected")
    => /\ Len(responses) = 1
       /\ Len(responses[1].content[1].text) >= 3
       /\ SubSeq(responses[1].content[1].text, 1, 3)
              = <<"Error [", "NETWORK_ERROR", "]: ">>

\* C9 amended: when the share request of share_go_code fails in transport,
\* shareCode returns null, without an error kind, and the caller is answered
\* with the ordinary text response "Failed to share code. Please try again."
C9_ShareFailureIsNoLink ==
    (/\ pc = "done"
     /\ name.v = <<"share_go_code">>
     /\ shareOutcome.kind = "rejected")
    => /\ shareUrl = [t |-> "null"]
       /\ responses = <<[content |-> <<[type |-> "text",
                          text |-> <<"Failed to share code. Please try again.">>]>>]>>

\* C9 witness: the share request of share_go_code timed out
C9_Witness ==
    /\ pc = "done"
    /\ name.v = <<"share_go_code">>
    /\ shareOutcome.kind = "rejected"
    /\ shareOutcome.error.message = <<"timeout of 30000ms exceeded">>
    /\ shareUrl.t = "null"
    /\ Len(responses) = 1

\* A response of the shape createErrorResponse builds
IsUniformError(r) ==
    r.content[1].text[1] \in {"Error [", "Error: ", "Unexpected error: "}

IsTextResponse(r) ==
    /\ DOMAIN r = {"content"}
    /\ Len(r.content) = 1
    /\ r.content[1].type = "text"
    /\ Len(r.content[1].text) > 0

\* C10 as stated, in the form a finished invocation refutes: a finished
\* invocation has exactly one response, and when an exception was raised by
\* a remote call or by classification that response is the uniform error
\* response.
C10_ExceptionsBecomeUniformError ==
    (pc = "done")
    => /\ Len(responses) = 1
       /\ raised # {} => IsUniformError(responses[1])

\* C10 amended: every invocation eventually receives exactly one textual
\* response and no exception reaches the transport.  An exception raised by
\* a remote call or by classification is caught inside the client and the
\* invocation is answered with the ordinary report; the uniform error
\* response answers only an unknown tool name or invalid arguments, before
\* any request is issued.  An outstanding request can always settle.
C10_AnsweredExactlyOnce ==
    /\ [](Len(responses) <= 1)
    /\ [](pc \in {"awaitExecute", "awaitShare"} => responses = << >>)
    /\ [](pc = "done" => /\ Len(responses) = 1
                         /\ IsTextResponse(responses[1]))
    /\ []((pc = "done" /\ raised # {}) => ~IsUniformError(responses[1]))
    /\ []((pc = "done" /\ IsUniformError(responses[1]))
          => /\ execRequests = << >>
             /\ shareRequests = << >>
             /\ \/ name.v[1] \notin TOOL_NAMES
                \/ ~isToolArgs(name.v[1], args))
    /\ [](pc \in {"awaitExecute", "awaitShare"} => ENABLED Settle)
    /\ (pc \in {"awaitExecute", "awaitShare"}) ~> (pc = "done")

\* C10 witness: run_and_share_go_code answered once although the
\* classification threw and the share request was rejected
C10_Witness ==
    /\ pc = "done"
    /\ name.v = <<"run_and_share_go_code">>
    /\ raised = {"classification", "remote call"}
    /\ Len(responses) = 1
    /\ IsTextResponse(responses[1])
    /\ responses[1].content[1].text[1] = "Code execution failed!\n"

\* C11: for run_go_code and run_and_share_go_code with a valid code, a
\* withVet argument that is present but not a boolean is answered with the
\* VALIDATION_ERROR response and no request; otherwise the one execute
\* request carries the supplied boolean, and true when withVet is absent.
C11_WithVetValidatedAndSent ==
    (/\ pc # "idle"
     /\ name.v[1] \in {"run_go_code", "run_and_share_go_code"}
     /\ ~CodeArgumentInvalid(args))
    => IF "withVet" \in DOMAIN args.f /\ args.f.withVet.t # "boolean"
       THEN /\ pc = "done"
            /\ IsValidationError(responses,
                                 <<"Invalid arguments for ", name.v[1]>>)
            /\ execRequests = << >>
            /\ shareRequests = << >>
       ELSE /\ Len(execRequests) = 1
            /\ execRequests[1].version = 2
            /\ execRequests[1].body = args.f.code.v
            /\ execRequests[1].withVet
                   = (IF "withVet" \in DOMAIN args.f
                      THEN args.f.withVet.v ELSE TRUE)

\* C11 witness: run_go_code called with withVet false sends withVet false
C11_Witness ==
    /\ pc = "awaitExecute"
    /\ name.v = <<"run_go_code">>
    /\ "withVet" \in DOMAIN args.f
    /\ args.f.withVet = [t |-> "boolean", v |-> FALSE]
    /\ Len(execRequests) = 1
    /\ execRequests[1].withVet = FALSE

\* Exactly one variant of a Result is active
OneVariant(r) ==
    \/ /\ r.success = TRUE
       /\ {"output", "exitCode"} \subseteq DOMAIN r
       /\ "errors" \notin DOMAIN r
    \/ /\ r.success = FALSE
       /\ "errors" \in DOMAIN r
       /\ "output" \notin DOMAIN r

\* C12: every Result of the run and run-and-share pipelines has exactly one
\* active variant, and in a run-and-share result shareUrl is present exactly
\* when the share request succeeded, whichever variant is active.
C12_OneVariantShareUrlOrthogonal ==
    /\ runResult # NoResult
       => /\ OneVariant(runResult)
          /\ "shareUrl" \notin DOMAIN runResult
    /\ result # NoResult
       => /\ OneVariant(result)
          /\ result.success = runResult.success
          /\ DOMAIN result \subseteq
                 {"success", "output", "errors", "exitCode", "shareUrl"}
          /\ "shareUrl" \in DOMAIN result
             <=> /\ name.v = <<"run_and_share_go_code">>
                 /\ shareOutcome.kind = "resolved"

\* C12 witness: a Failure that carries a shareUrl
C12_Witness ==
    /\ pc = "done"
    /\ name.v = <<"run_and_share_go_code">>
    /\ result # NoResult
    /\ result.success = FALSE
    /\ "errors" \in DOMAIN result
    /\ "output" \notin DOMAIN result
    /\ "shareUrl" \in DOMAIN result

\* The other three combinations of variant and shareUrl
C12_SuccessWithUrl ==
    /\ pc = "done" /\ result # NoResult
    /\ result.success /\ "shareUrl" \in DOMAIN result
C12_SuccessWithoutUrl ==
    /\ pc = "done" /\ result # NoResult
    /\ name.v = <<"run_and_share_go_code">>
    /\ result.success /\ "shareUrl" \notin DOMAIN result
C12_FailureWithoutUrl ==
    /\ pc = "done" /\ result # NoResult
    /\ name.v = <<"run_and_share_go_code">>
    /\ ~result.success /\ "shareUrl" \notin DOMAIN result

\* C13: one invocation issues at most one execute request and at most one
\* share request (run_go_code no share, share_go_code no execute), and a
\* request that failed in transport has not been issued again: the
\* invocation ends with that single failed outcome.
C13_NoRetries ==
    /\ Len(execRequests) <= 1
    /\ Len(shareRequests) <= 1
    /\ pc # "idle"
       => /\ name.v = <<"run_go_code">> => shareRequests = << >>
          /\ name.v = <<"share_go_code">> => execRequests = << >>
    /\ execOutcome.kind = "rejected"
       => /\ Len(execRequests) = 1
          /\ pc # "awaitExecute"
          /\ runResult.success = FALSE
    /\ shareOutcome.kind = "rejected"
       => /\ Len(shareRequests) = 1
          /\ pc = "done"
          /\ shareUrl = [t |-> "null"]
          /\ Len(responses) = 1

\* C13 witness: run_and_share_go_code ended after both of its requests
\* failed in transport, each issued once
C13_Witness ==
    /\ pc = "done"
    /\ name.v = <<"run_and_share_go_code">>
    /\ execOutcome.kind = "rejected"
    /\ shareOutcome.kind = "rejected"
    /\ Len(execRequests) = 1
    /\ Len(shareRequests) = 1
    /\ result.success = FALSE
    /\ "shareUrl" \notin DOMAIN result

\* The execute result as a function of the outcome of POST /compile alone
ExpectedRun(e) ==
    IF e.kind = "rejected"
    THEN [success |-> FALSE,
          errors |-> <<"HTTP Error: ", StatusText(e.error), " - ">>
                     \o e.error.message]
    ELSE IF e.data.t # "object"
    THEN [success |-> FALSE,
          errors |-> <<"Invalid response from Go Playground API">>]
    ELSE IF trim(e.data.Errors) # << >>
    THEN [success |-> FALSE, errors |-> e.data.Errors,
          exitCode |-> e.data.Status]
    ELSE IF e.data.Events.t \in {"undefined", "null"}
    THEN [success |-> TRUE, output |-> << >>, exitCode |-> e.data.Status]
    ELSE IF e.data.Events.t # "array"
    THEN [success |-> FALSE,
          errors |-> <<"Unexpected error: ",
                       "result.Events?.filter is not a function">>]
    ELSE IF HasKind(e.data.Events.v, "stderr")
    THEN [success |-> FALSE,
          errors |-> ConcatOfKind(e.data.Events.v, "stderr"),
          exitCode |-> e.data.Status]
    ELSE [success |-> TRUE,
          output |-> ConcatOfKind(e.data.Events.v, "stdout"),
          exitCode |-> e.data.Status]

\* The merged result as a function of the two outcomes alone
ExpectedMerged(e, s) ==
    IF s.kind = "rejected" THEN ExpectedRun(e)
    ELSE ExpectedRun(e)
         @@ ("shareUrl" :> <<"https://go.dev/play", "/p/">> \o s.data)

C14_ExecuteFirst ==
    /\ pc = "done"
    /\ name.v = <<"run_and_share_go_code">>
    /\ settled = <<"execute", "share">>
    /\ shareOutcome.kind = "resolved"
    /\ execOutcome.kind = "resolved"
    /\ result.success = FALSE
    /\ result.errors = <<"x">>
    /\ result.shareUrl = <<"https://go.dev/play", "/p/", "B">>

\* The text of the only response of a finished invocation
Report == responses[1].content[1].text

\* The sections of the execution report of a composed result, in order
SuccessSections(r) ==
    <<"Code executed successfully!\n", "\n", "**Output:**", "\n", "~~~", "\n">>
    \o (IF r.output = << >> THEN <<"(no output)">> ELSE r.output)
    \o <<"\n", "~~~\n", "\n", "**Exit Code:** ", ToString(r.exitCode)>>

FailureSections(r) ==
    <<"Code execution failed!\n", "\n", "**Errors:**", "\n", "~~~", "\n">>
    \o r.errors
    \o <<"\n", "~~~\n">>
    \o (IF "exitCode" \in DOMAIN r
        THEN <<"\n", "**Exit Code:** ", ToString(r.exitCode)>> ELSE << >>)

ExecutionSections(r) ==
    IF r.success THEN SuccessSections(r) ELSE FailureSections(r)

\* How many atoms of a text open a trailing line of the combined report
TrailingLines(text) ==
    Cardinality({i \in 1..Len(text) :
                    text[i] \in {"\n**Share URL:** ",
                                 "\nFailed to generate share URL"}})

\* C15: the report of a composed result is the fixed sequence of sections:
\* Success gives marker, Output section (the placeholder for an empty
\* output) and Exit Code line; Failure gives marker, Errors section and an
\* Exit Code line exactly when exitCode is present; run_and_share_go_code
\* adds exactly one trailing line after the execution report, the Share URL
\* line when shareUrl is present and the warning line otherwise, and
\* run_go_code adds none.
C15_ReportSections ==
    (pc = "done" /\ result # NoResult)
    => /\ Len(responses) = 1
       /\ name.v = <<"run_go_code">>
          => /\ Report = ExecutionSections(result)
             /\ TrailingLines(Report) = 0
       /\ name.v = <<"run_and_share_go_code">>
          => /\ Report = ExecutionSections(result)
                         \o (IF "shareUrl" \in DOMAIN result
                             THEN <<"\n**Share URL:** ">> \o result.shareUrl
                             ELSE <<"\nFailed to generate share URL">>)
             /\ TrailingLines(Report) = 1
             /\ Len(Report) > Len(ExecutionSections(result))
             /\ SubSeq(Report, 1, Len(ExecutionSections(result)))
                    = ExecutionSections(result)

\* C15 witness: run_and_share_go_code reports a Failure without exitCode,
\* so without Exit Code line, followed by the Share URL line
C15_Witness ==
    /\ pc = "done"
    /\ name.v = <<"run_and_share_go_code">>
    /\ result # NoResult
    /\ result.success = FALSE
    /\ "exitCode" \notin DOMAIN result
    /\ "shareUrl" \in DOMAIN result
    /\ Report = <<"Code execution failed!\n", "\n", "**Errors:**", "\n",
                  "~~~", "\n", "HTTP Error: ", "500", " - ",
                  "Request failed with status code ", "500", "\n", "~~~\n",
                  "\n**Share URL:** ", "https://go.dev/play", "/p/", "A">>

\* C15: a Success with empty output reports the placeholder, followed by
\* the warning line
C15_PlaceholderAndWarning ==
    /\ pc = "done"
    /\ name.v = <<"run_and_share_go_code">>
    /\ result # NoResult
    /\ result.success
    /\ result.output = << >>
    /\ Report = <<"Code executed successfully!\n", "\n", "**Output:**", "\n",
                  "~~~", "\n", "(no output)", "\n", "~~~\n", "\n",
                  "**Exit Code:** ", "0", "\nFailed to generate share URL">>

\* C15: a Failure with exitCode reports the Exit Code line
C15_FailureWithExitCode ==
    /\ pc = "done"
    /\ name.v = <<"run_go_code">>
    /\ result # NoResult
    /\ result.success = FALSE
    /\ Report = <<"Code execution failed!\n", "\n", "**Errors:**", "\n",
                  "~~~", "\n", "e", "\n", "~~~\n", "\n",
                  "**Exit Code:** ", "2">>

\* The received outcome of POST /compile is one that the classifier turns
\* into a compile error or a stderr failure
ClassifiedAsFailure(e) ==
    /\ e.kind = "resolved"
    /\ e.data.t = "object"
    /\ \/ trim(e.data.Errors) # << >>
       \/ /\ e.data.Events.t = "array"
          /\ HasKind(e.data.Events.v, "stderr")

\* exitCode of a result returned for the outcome e of POST /compile
ExitCodeAsClassified(r, e) ==
    /\ r.success = FALSE
       => ("exitCode" \in DOMAIN r <=> ClassifiedAsFailure(e))
    /\ r.success = TRUE
       => /\ e.kind = "resolved"
          /\ "exitCode" \in DOMAIN r
    /\ "exitCode" \in DOMAIN r => r.exitCode = e.data.Status
    /\ e.kind = "rejected" => r.success = FALSE /\ "exitCode" \notin DOMAIN r
    /\ (e.kind = "resolved" /\ e.data.t # "object")
       => r.success = FALSE /\ "exitCode" \notin DOMAIN r

\* C16: a Failure returned by runCode or runAndShare carries an exitCode
\* exactly when a received response was classified as a compile error or a
\* stderr failure, and then exitCode = Status; a failure caused by code
\* validation, by a transport error or by a body that is not an object
\* carries none; every Success carries exitCode = Status.
C16_ExitCodeIffClassified ==
    /\ (runResult # NoResult /\ execOutcome.kind # "none")
       => ExitCodeAsClassified(runResult, execOutcome)
    /\ (result # NoResult /\ execOutcome.kind # "none")
       => ExitCodeAsClassified(result, execOutcome)
    /\ \A c \in CodeTexts, w \in BOOLEAN :
          ~validateGoCode(c).success
          => /\ runGoCodeStart(c, w).returned
             /\ runGoCodeStart(c, w).result.success = FALSE
             /\ "exitCode" \notin DOMAIN runGoCodeStart(c, w).result

\* C16 witness: runCode classified the stderr event of a response with
\* Status 2 and blank Errors; the Failure carries exitCode 2
C16_Witness ==
    /\ pc = "done"
    /\ name.v = <<"run_go_code">>
    /\ execOutcome.kind = "resolved"
    /\ execOutcome.data.t = "object"
    /\ execOutcome.data.Errors = <<" ">>
    /\ execOutcome.data.Status = 2
    /\ execOutcome.data.Events.t = "array"
    /\ HasKind(execOutcome.data.Events.v, "stderr")
    /\ result.success = FALSE
    /\ "exitCode" \in DOMAIN result
    /\ result.exitCode = 2

\* C16: runAndShare returned a Failure without exitCode for an HTTP 500
C16_TransportFailure ==
    /\ pc = "done"
    /\ name.v = <<"run_and_share_go_code">>
    /\ execOutcome.kind = "rejected"
    /\ "status" \in DOMAIN execOutcome.error
    /\ result.success = FALSE
    /\ "exitCode" \notin DOMAIN result

\* C16: runCode returned a Failure without exitCode for a null body
C16_MalformedBody ==
    /\ pc = "done"
    /\ name.v = <<"run_go_code">>
    /\ execOutcome.kind = "resolved"
    /\ execOutcome.data.t = "null"
    /\ result.success = FALSE
    /\ "exitCode" \notin DOMAIN result

====
